---- MODULE Spec2Model ----
(***************************************************************************)
(* Model of shadowsocks-core/src/context.rs: the ping-pong bloom filter    *)
(* that detects replayed nonces, and the shared Context around it.         *)
(***************************************************************************)
EXTENDS Integers, Sequences, FiniteSets, TLC

(***************************************************************************)
(* Bounds of the model.                                                    *)
(***************************************************************************)
\* Nonces are byte strings of length 0 or 1 over the bytes 0..MaxByte.
MaxByte == 5
\* The filters are sized for at most this many entries per slot (the
\* program's sizes, 500000 and 5000 per slot, are scaled down to these).
MaxItemsServer == 2
MaxItemsClient == 1
\* Number of novel nonces a sequential run inserts before it stops.
MaxInserts == 7
\* Number of tasks that share the Context.
NumTasks == 2
\* Number of rounds of concurrent check_nonce_and_set calls.
MaxBatches == 3
\* The set_server_stopped calls are counted up to this number.
MaxStops == 2
\* Number of nonces inserted beside the DNS resolutions.
MaxPeerInserts == 2
\* Number of times the configuration is handed out for writing.
MaxConfigMuts == 1
\* Number of tasks in the runs that follow the locks under a fair scheduler.
NumLockTasks == 3

(***************************************************************************)
(* Program constants.                                                      *)
(***************************************************************************)
BF_NUM_ENTRIES_FOR_SERVER == 1000000
BF_NUM_ENTRIES_FOR_CLIENT == 10000

Min(a, b) == IF a <= b THEN a ELSE b

Bytes == 0..MaxByte
Nonces == {<<>>} \cup {<<b>> : b \in Bytes}
NonEmptyNonces == Nonces \ {<<>>}

Tasks == 1..NumTasks
LockTasks == 1..NumLockTasks

ConfigTypes == {"Local", "Server"}
is_local(ty) == ty = "Local"

\* Addresses: socket addresses (an IP) and domain names.
IPs == {"ip1", "ip2"}
Hosts == {"host"}
Addresses ==
    {[kind |-> "SocketAddress", name |-> ip] : ip \in IPs}
        \cup {[kind |-> "DomainNameAddress", name |-> h] : h \in Hosts}

SocketTarget(ip) == [kind |-> "SocketAddress", name |-> ip]

\* Option<T>: None is the empty set, Some(x) the set {x}.
None == {}
Some(x) == {x}
Unwrap(o) == CHOOSE x \in o : TRUE

(***************************************************************************)
(* acl::AccessControl, as far as the Context asks it: the names (IPs and   *)
(* hosts) on its proxy list and the addresses on its block list.           *)
(***************************************************************************)
AccessControls ==
    {[proxy_list |-> P, block_list |-> {"ip2"}] :
        P \in {{}, {"ip1"}, {"ip1", "host"}}}

OptionalAcls == {None} \cup {Some(a) : a \in AccessControls}

\* Maps: a key removed, a key set.
MapRemove(m, k) == [x \in (DOMAIN m) \ {k} |-> m[x]]
MapInsert(m, k, v) == [x \in (DOMAIN m) \cup {k} |-> IF x = k THEN v ELSE m[x]]

acl_check_ip_in_proxy_list(a, ip) == ip \in a.proxy_list
acl_check_client_blocked(a, ip) == ip \in a.block_list
acl_check_outbound_blocked(a, addr) == addr.name \in a.block_list
acl_check_target_bypassed(a, target) == target.name \notin a.proxy_list

(***************************************************************************)
(* bloomfilter::Bloom<[u8]>.  A filter is a bitmap and the SipHash keys     *)
(* drawn at random when it is built.  The keys decide which values share   *)
(* bits: with key 1 no two nonces of the model collide, with key 2 the     *)
(* nonces <<2k>> and <<2k+1>> do (a false positive).  There is one hash    *)
(* function per filter (k = 1).                                            *)
(***************************************************************************)
SipKeys == {1, 2}

RECURSIVE SumBytes(_)
SumBytes(buf) == IF buf = <<>> THEN 0 ELSE Head(buf) + SumBytes(Tail(buf))

BloomBit(sip, buf) == SumBytes(buf) \div sip

Bloom_new(sip) == [bitmap |-> {}, sip |-> sip]

Bloom_check(bloom, buf) == BloomBit(bloom.sip, buf) \in bloom.bitmap

Bloom_set(bloom, buf) ==
    [bloom EXCEPT !.bitmap = @ \cup {BloomBit(bloom.sip, buf)}]

Bloom_clear(bloom) == [bloom EXCEPT !.bitmap = {}]

(***************************************************************************)
(* PingPongBloom                                                           *)
(***************************************************************************)
\* item_count after `item_count /= 2`, scaled to the model's size.
ItemCountFor(ty) ==
    IF is_local(ty)
    THEN Min(BF_NUM_ENTRIES_FOR_CLIENT \div 2, MaxItemsClient)
    ELSE Min(BF_NUM_ENTRIES_FOR_SERVER \div 2, MaxItemsServer)

PingPongBloom_new(ty, sip0, sip1) ==
    [ blooms      |-> [i \in 0..1 |-> Bloom_new(IF i = 0 THEN sip0 ELSE sip1)],
      bloom_count |-> [i \in 0..1 |-> 0],
      item_count  |-> ItemCountFor(ty),
      current     |-> 0 ]

\* Mutant: only the active filter is asked.
Mut_CheckCurrentOnly(self, buf) ==
    Bloom_check(self.blooms[self.current], buf)

\* The loop over both filters at the head of check_and_set.
AnyBloomChecks(self, buf) ==
    \E i \in 0..1 : Bloom_check(self.blooms[i], buf)

\* Mutant: `>` for `>=`, a slot takes one entry too many.
Mut_CurrentIsFullGt(self) == self.bloom_count[self.current] > self.item_count

\* `if self.bloom_count[self.current] >= self.item_count { ... }`
CurrentIsFull(self) == self.bloom_count[self.current] >= self.item_count

\* Mutant: the filter is cleared before the index is flipped, so the full
\* slot is the one emptied.
Mut_RotateClearOld(self) ==
    LET c == (self.current + 1) % 2
    IN  [self EXCEPT !.current = c,
                     !.bloom_count[c] = 0,
                     !.blooms[self.current] = Bloom_clear(@)]

\* Mutant: the counter is reset but the filter is not cleared.
Mut_RotateNoClear(self) ==
    LET c == (self.current + 1) % 2
    IN  [self EXCEPT !.current = c,
                     !.bloom_count[c] = 0]

\* Mutant: the filter is cleared but its counter is not reset.
Mut_RotateNoReset(self) ==
    LET c == (self.current + 1) % 2
    IN  [self EXCEPT !.current = c,
                     !.blooms[c] = Bloom_clear(@)]

\* Mutant: a rotation clears both filters.
Mut_RotateClearBoth(self) ==
    LET c == (self.current + 1) % 2
    IN  [self EXCEPT !.current = c,
                     !.bloom_count[c] = 0,
                     !.blooms = [i \in 0..1 |-> Bloom_clear(@[i])]]

Rotate(self) ==
    LET c == (self.current + 1) % 2
    IN  [self EXCEPT !.current = c,
                     !.bloom_count[c] = 0,
                     !.blooms[c] = Bloom_clear(@)]

RotateIfFull(self) == IF CurrentIsFull(self) THEN Rotate(self) ELSE self

\* Mutant: the value is set into the filter and not counted.
Mut_SetCurrentNoCount(self, buf) ==
    [self EXCEPT !.blooms[self.current] = Bloom_set(@, buf)]

SetCurrent(self, buf) ==
    [self EXCEPT !.blooms[self.current] = Bloom_set(@, buf),
                 !.bloom_count[self.current] = @ + 1]

\* The part of check_and_set after the membership loop.
InsertNovel(self, buf) == SetCurrent(RotateIfFull(self), buf)

\* Mutant: the rotation is done before the two filters are asked.
Mut_RotateBeforeCheck(self, buf) ==
    LET s == RotateIfFull(self)
    IN  IF AnyBloomChecks(s, buf)
        THEN [self |-> s, ret |-> TRUE]
        ELSE [self |-> SetCurrent(s, buf), ret |-> FALSE]

\* check_and_set(&mut self, buf) -> bool: the filter afterwards and the result.
check_and_set(self, buf) ==
    IF AnyBloomChecks(self, buf)
    THEN [self |-> self, ret |-> TRUE]
    ELSE [self |-> InsertNovel(self, buf), ret |-> FALSE]

(***************************************************************************)
(* State                                                                   *)
(***************************************************************************)
VARIABLES
    config_type,     \* config.config_type
    acl,             \* config.acl: None or an AccessControl
    local_dns_addr,  \* config.local_dns_addr: None or the address of the upstream
    local_dns,       \* Context::local_dns: None or the LocalUpstream built from it
    config_server,   \* config.server: the ServerConfigs, by index
    built_with,      \* history: the local_dns_addr the constructor was given
    config_muts,     \* history: number of config_mut and server_config_mut
                     \* calls, up to MaxConfigMuts
    dns_last,        \* the latest dns_resolve that returned: its arguments, the
                     \* lookups it delegated, the reply it got and its result
    server_running,  \* Context::server_running (AtomicBool)
    reverse_lookup_cache,  \* the LruCache<IpAddr, bool>: a map from IPs to bools
    cache_lock,      \* the async Mutex around the cache: its holder, or 0
    last,            \* the latest call that returned a bool, the bool, and what
                     \* decided it: the flag, the default taken without an ACL,
                     \* the cache, or the ACL
    stops,           \* history: number of set_server_stopped calls, up to MaxStops
    last_rec,        \* history: per IP the forward flag of the latest record
                     \* and what the ACL alone said of the IP at that time
    nonce_ppbloom,   \* Context::nonce_ppbloom (the PingPongBloom in the lock)
    seq_nonce,       \* argument of the latest sequential call
    seq_ret,         \* result of the latest sequential call
    hist,            \* history: the inserted nonces, oldest first, each with
                     \* the number of rotations done when it was inserted
    rotations,       \* history: number of rotations so far
    nonce_lock,      \* the SpinMutex around nonce_ppbloom: its holder, or 0
    pc,              \* per task: where it is in its current call
    arg,             \* per task: the argument of its current call
    ret,             \* per task: the result of its latest call
    batch            \* history: the round of concurrent nonce calls

seqVars == <<seq_nonce, seq_ret, hist, rotations>>
taskVars == <<pc, arg, ret>>
nonceVars == <<nonce_lock, batch>>
ctxVars == <<server_running, reverse_lookup_cache, cache_lock, last, stops,
             last_rec>>
\* The configuration and what is built from it once, at construction.
confVars == <<config_type, acl, local_dns_addr, local_dns, config_server,
              built_with, config_muts>>
dnsVars == <<dns_last>>
vars == <<confVars, dnsVars, nonce_ppbloom, seqVars, taskVars, nonceVars, ctxVars>>

NoArg == <<>>

\* config.local_dns_addr: no address, or the address of the local upstream.
LocalDnsAddrs == {None, Some("local_dns_addr")}

\* `if config.local_dns_addr.is_some() { Some(LocalUpstream::new(&config)) }
\*  else { None }`
local_dns_new(lda) ==
    IF lda # None THEN Some([upstream |-> Unwrap(lda)]) ELSE None

\* config.server: one ServerConfig, of which the model keeps the cipher.
Methods == {"AES_256_GCM", "SS_RC4_MD5"}
ServerConfig(method) == [method |-> method]
ServerIdxs == {1}

\* No dns_resolve has returned yet.
NoDns == [host |-> "", port |-> 0, debug |-> FALSE, enabled |-> FALSE,
          lookups |-> <<>>,
          reply |-> [ok |-> FALSE, addrs |-> <<>>, kind |-> ""],
          result |-> [ok |-> FALSE, addrs |-> <<>>, kind |-> ""],
          logged |-> FALSE]

\* The state Context::new_with_state_shared leaves, the Arc being handed to
\* the tasks `T`, for a configuration of type `ty` with ACL `a` and local DNS
\* address `lda`, the two filters having drawn the keys sip0 and sip1.
new_with_state_shared(T, ty, sip0, sip1, a, lda) ==
    /\ config_type = ty
    /\ acl = a
    /\ local_dns_addr = lda
    /\ local_dns = local_dns_new(lda)
    /\ config_server = [idx \in ServerIdxs |-> ServerConfig("AES_256_GCM")]
    /\ built_with = lda
    /\ config_muts = 0
    /\ dns_last = NoDns
    /\ nonce_ppbloom = PingPongBloom_new(ty, sip0, sip1)
    /\ nonce_lock = 0
    /\ server_running = TRUE
    /\ reverse_lookup_cache = <<>>
    /\ cache_lock = 0
    /\ pc = [t \in T |-> "idle"]
    /\ arg = [t \in T |-> NoArg]
    /\ ret = [t \in T |-> FALSE]
    /\ last = [op |-> "none", ret |-> FALSE, via |-> "none"]
    /\ seq_nonce = <<>>
    /\ seq_ret = FALSE
    /\ hist = <<>>
    /\ rotations = 0
    /\ batch = [n |-> 0, nonce |-> <<>>, fresh |-> FALSE]
    /\ stops = 0
    /\ last_rec = <<>>

\* The state Context::new_with_state leaves, the context being shared by
\* Tasks.
new_with_state(ty, sip0, sip1, a, lda) ==
    new_with_state_shared(Tasks, ty, sip0, sip1, a, lda)

Init ==
    \E ty \in ConfigTypes, sip0 \in SipKeys, sip1 \in SipKeys,
       a \in OptionalAcls, lda \in LocalDnsAddrs :
        new_with_state(ty, sip0, sip1, a, lda)

\* The nonce filter reads nothing of the ACL: the runs of the filter start
\* from the contexts without one.
InitFilter ==
    \E ty \in ConfigTypes, sip0 \in SipKeys, sip1 \in SipKeys :
        new_with_state(ty, sip0, sip1, None, None)

\* The flag, the ACL decisions and the reverse-lookup cache read nothing of
\* the filter: their runs start from the local contexts, whose filters drew
\* the keys 1 and 1.
InitContext ==
    \E a \in OptionalAcls : new_with_state("Local", 1, 1, a, None)

(***************************************************************************)
(* Context::check_nonce_and_set called by one caller at a time.            *)
(***************************************************************************)
\* Mutant: the empty nonce is not told apart.
Mut_NeverEmpty(nonce) == FALSE

\* `if nonce.is_empty() { return false; }`
nonce_is_empty(nonce) == nonce = <<>>

\* check_nonce_and_set(&self, nonce) -> bool on the filter `pp`.
check_nonce_and_set(pp, nonce) ==
    IF nonce_is_empty(nonce)
    THEN [self |-> pp, ret |-> FALSE]
    ELSE check_and_set(pp, nonce)

Rotated(pp, pp2) == pp2.current # pp.current

SeqCheckNonceAndSet(nonce) ==
    LET r == check_nonce_and_set(nonce_ppbloom, nonce)
        rot == IF Rotated(nonce_ppbloom, r.self) THEN rotations + 1 ELSE rotations
        inserted == nonce # <<>> /\ ~r.ret
    IN  /\ Len(hist) < MaxInserts
        /\ nonce_ppbloom' = r.self
        /\ seq_nonce' = nonce
        /\ seq_ret' = r.ret
        /\ rotations' = rot
        /\ hist' = IF inserted
                   THEN Append(hist, [nonce |-> nonce, rot |-> rot])
                   ELSE hist
        /\ UNCHANGED <<confVars, dnsVars, taskVars, nonceVars, ctxVars>>

NextSeq == \E nonce \in Nonces : SeqCheckNonceAndSet(nonce)

SpecSeq == InitFilter /\ [][NextSeq]_vars

(***************************************************************************)
(* Context::check_nonce_and_set called by several tasks at once.  A call   *)
(* is the test for the empty nonce, the acquisition of the spin lock, the  *)
(* membership loop of check_and_set, and the insertion; the lock guard is  *)
(* dropped when the call returns.  The calls come in rounds: the tasks of  *)
(* a round pass the same nonce, or the empty one.                          *)
(***************************************************************************)
\* Mutant: the lock is handed out while it is held.
Mut_LockAlwaysFree(lock) == TRUE

\* spin::Mutex::lock returns once the lock is not held.
SpinLockFree(lock) == lock = 0

NonceCall(t, nonce) ==
    /\ pc[t] = "idle"
    /\ nonce # <<>> => (batch.nonce = <<>> \/ batch.nonce = nonce)
    /\ arg' = [arg EXCEPT ![t] = nonce]
    /\ IF nonce_is_empty(nonce)
       THEN /\ pc' = [pc EXCEPT ![t] = "done"]
            /\ ret' = [ret EXCEPT ![t] = FALSE]
       ELSE /\ pc' = [pc EXCEPT ![t] = "nonce_lock"]
            /\ UNCHANGED ret
    /\ batch' = IF nonce # <<>> /\ batch.nonce = <<>>
                THEN [batch EXCEPT !.nonce = nonce,
                                   !.fresh = ~AnyBloomChecks(nonce_ppbloom, nonce)]
                ELSE batch
    /\ UNCHANGED <<confVars, dnsVars, nonce_ppbloom, seqVars, nonce_lock, ctxVars>>

NonceLock(t) ==
    /\ pc[t] = "nonce_lock"
    /\ SpinLockFree(nonce_lock)
    /\ nonce_lock' = t
    /\ pc' = [pc EXCEPT ![t] = "nonce_check"]
    /\ UNCHANGED <<confVars, dnsVars, nonce_ppbloom, seqVars, arg, ret, batch, ctxVars>>

\* The membership loop; a hit returns true and drops the guard.
NonceCheck(t) ==
    /\ pc[t] = "nonce_check"
    /\ IF AnyBloomChecks(nonce_ppbloom, arg[t])
       THEN /\ ret' = [ret EXCEPT ![t] = TRUE]
            /\ pc' = [pc EXCEPT ![t] = "done"]
            /\ nonce_lock' = 0
       ELSE /\ pc' = [pc EXCEPT ![t] = "nonce_set"]
            /\ UNCHANGED <<ret, nonce_lock>>
    /\ UNCHANGED <<confVars, dnsVars, nonce_ppbloom, seqVars, arg, batch, ctxVars>>

\* The rotation and the insertion; returns false and drops the guard.
NonceSet(t) ==
    /\ pc[t] = "nonce_set"
    /\ nonce_ppbloom' = InsertNovel(nonce_ppbloom, arg[t])
    /\ ret' = [ret EXCEPT ![t] = FALSE]
    /\ pc' = [pc EXCEPT ![t] = "done"]
    /\ nonce_lock' = 0
    /\ UNCHANGED <<confVars, dnsVars, seqVars, arg, batch, ctxVars>>

\* Every call of the round has returned: the next round starts.
NewBatch ==
    /\ batch.n + 1 < MaxBatches
    /\ \A t \in Tasks : pc[t] \in {"idle", "done"}
    /\ \E t \in Tasks : pc[t] = "done"
    /\ pc' = [t \in Tasks |-> "idle"]
    /\ arg' = [t \in Tasks |-> NoArg]
    /\ ret' = [t \in Tasks |-> FALSE]
    /\ batch' = [n |-> batch.n + 1, nonce |-> <<>>, fresh |-> FALSE]
    /\ UNCHANGED <<confVars, dnsVars, nonce_ppbloom, seqVars, nonce_lock, ctxVars>>

NextNonce ==
    \/ \E t \in Tasks, nonce \in Nonces : NonceCall(t, nonce)
    \/ \E t \in Tasks : NonceLock(t)
    \/ \E t \in Tasks : NonceCheck(t)
    \/ \E t \in Tasks : NonceSet(t)
    \/ NewBatch

SpecNonce == InitFilter /\ [][NextNonce]_vars


(***************************************************************************)
(* The running flag, the ACL decisions and the reverse-lookup cache.       *)
(***************************************************************************)
filterVars == <<nonce_ppbloom, seqVars, nonceVars, ret>>

\* Mutant: the store flips the flag.
Mut_StoreToggles(flag) == ~flag

\* `self.server_running.store(false, Ordering::Release)`: the flag afterwards.
set_server_stopped(flag) == FALSE

\* `self.server_running.load(Ordering::Acquire)`
ServerRunning(t) ==
    /\ pc[t] = "idle"
    /\ last' = [op |-> "server_running", ret |-> server_running, via |-> "flag"]
    /\ UNCHANGED <<confVars, dnsVars, filterVars, pc, arg, server_running,
                   reverse_lookup_cache, cache_lock, stops, last_rec>>

SetServerStopped(t) ==
    /\ pc[t] = "idle"
    /\ server_running' = set_server_stopped(server_running)
    /\ stops' = Min(stops + 1, MaxStops)
    /\ UNCHANGED <<confVars, dnsVars, filterVars, pc, arg, reverse_lookup_cache,
                   cache_lock, last, last_rec>>

\* Mutant: without an ACL everything is blocked.
Mut_ClientBlockedByDefault(a, ip) ==
    IF a = None THEN TRUE ELSE acl_check_client_blocked(Unwrap(a), ip)

check_client_blocked(a, ip) ==
    IF a = None THEN FALSE ELSE acl_check_client_blocked(Unwrap(a), ip)

check_outbound_blocked(a, addr) ==
    IF a = None THEN FALSE ELSE acl_check_outbound_blocked(Unwrap(a), addr)

\* The arm of `match self.acl()` that a call takes.
AclArm(a) == IF a = None THEN "default" ELSE "acl"

CheckClientBlocked(t, ip) ==
    /\ pc[t] = "idle"
    /\ last' = [op |-> "check_client_blocked", ret |-> check_client_blocked(acl, ip),
                via |-> AclArm(acl)]
    /\ UNCHANGED <<confVars, dnsVars, filterVars, pc, arg, server_running,
                   reverse_lookup_cache, cache_lock, stops, last_rec>>

\* check_outbound_blocked: without an ACL the answer is false at once; with
\* one, the call awaits the ACL's answer.
CheckOutboundBlocked(t, addr) ==
    /\ pc[t] = "idle"
    /\ IF acl = None
       THEN /\ last' = [op |-> "check_outbound_blocked",
                        ret |-> check_outbound_blocked(acl, addr),
                        via |-> AclArm(acl)]
            /\ UNCHANGED <<pc, arg>>
       ELSE /\ pc' = [pc EXCEPT ![t] = "ob_acl"]
            /\ arg' = [arg EXCEPT ![t] = addr]
            /\ UNCHANGED last
    /\ UNCHANGED <<confVars, dnsVars, filterVars, server_running,
                   reverse_lookup_cache, cache_lock, stops, last_rec>>

\* `a.check_outbound_blocked(self, addr).await` completes.
OutboundAcl(t) ==
    /\ pc[t] = "ob_acl"
    /\ last' = [op |-> "check_outbound_blocked",
                ret |-> check_outbound_blocked(acl, arg[t]), via |-> AclArm(acl)]
    /\ pc' = [pc EXCEPT ![t] = "idle"]
    /\ arg' = [arg EXCEPT ![t] = NoArg]
    /\ UNCHANGED <<confVars, dnsVars, filterVars, server_running,
                   reverse_lookup_cache, cache_lock, stops, last_rec>>

\* What the ACL `a` alone says of an IP: forwarded, unless `a` is an ACL
\* whose proxy list does not hold it.
AclOnly(a, ip) == a = None \/ ip \in Unwrap(a).proxy_list

\* The history entry of a record made under the ACL `a`.
Recorded(a, ip, forward) == [forward |-> forward, proxied |-> AclOnly(a, ip)]

\* Mutant: without an ACL nothing counts as proxied by default.
Mut_DefaultNotProxied(a, ip, forward) ==
    forward # (IF a = None THEN FALSE ELSE acl_check_ip_in_proxy_list(Unwrap(a), ip))

\* `let is_exception = forward != match self.acl() { ... }`
is_exception(a, ip, forward) ==
    forward # (IF a = None THEN TRUE ELSE acl_check_ip_in_proxy_list(Unwrap(a), ip))

\* Mutant: an entry that is no longer an exception is left in place.
Mut_RecordNeverRemoves(cache, ip, forward, exception) ==
    IF exception THEN MapInsert(cache, ip, forward) ELSE cache

\* The `match reverse_lookup_cache.get_mut(addr)` of
\* add_to_reverse_lookup_cache: the cache afterwards.
cache_record(cache, ip, forward, exception) ==
    IF ip \in DOMAIN cache
    THEN IF exception
         THEN [cache EXCEPT ![ip] = forward]
         ELSE MapRemove(cache, ip)
    ELSE IF exception
         THEN MapInsert(cache, ip, forward)
         ELSE cache

\* tokio::sync::Mutex::lock().await completes once the lock is not held.
AsyncLockFree(lock) == lock = 0

\* Mutant: a hit returns the entry itself.
Mut_HitReturnsForward(forward) == forward

\* `return !*forward;`
cache_hit_bypassed(forward) == ~forward

AddCall(t, ip, forward) ==
    /\ pc[t] = "idle"
    /\ pc' = [pc EXCEPT ![t] = "add_lock"]
    /\ arg' = [arg EXCEPT ![t] = [ip |-> ip, forward |-> forward,
                                  exception |-> is_exception(acl, ip, forward)]]
    /\ UNCHANGED <<confVars, dnsVars, filterVars, ctxVars>>

AddLock(t) ==
    /\ pc[t] = "add_lock"
    /\ AsyncLockFree(cache_lock)
    /\ cache_lock' = t
    /\ pc' = [pc EXCEPT ![t] = "add_crit"]
    /\ UNCHANGED <<confVars, dnsVars, filterVars, arg, server_running,
                   reverse_lookup_cache, last, stops, last_rec>>

\* The match under the lock; the guard is dropped when the call returns.
AddRecord(t) ==
    /\ pc[t] = "add_crit"
    /\ reverse_lookup_cache' =
          cache_record(reverse_lookup_cache, arg[t].ip, arg[t].forward,
                       arg[t].exception)
    /\ last_rec' = MapInsert(last_rec, arg[t].ip,
                             Recorded(acl, arg[t].ip, arg[t].forward))
    /\ cache_lock' = 0
    /\ pc' = [pc EXCEPT ![t] = "idle"]
    /\ arg' = [arg EXCEPT ![t] = NoArg]
    /\ UNCHANGED <<confVars, dnsVars, filterVars, server_running, last, stops>>

\* check_target_bypassed: without an ACL the answer is false at once; with
\* one, a socket address is looked up in the cache first.
TbCall(t, target) ==
    /\ pc[t] = "idle"
    /\ IF acl = None
       THEN /\ last' = [op |-> "check_target_bypassed", ret |-> FALSE,
                        via |-> "default"]
            /\ UNCHANGED <<pc, arg>>
       ELSE /\ pc' = [pc EXCEPT ![t] =
                        IF target.kind = "SocketAddress" THEN "tb_lock" ELSE "tb_acl"]
            /\ arg' = [arg EXCEPT ![t] = target]
            /\ UNCHANGED last
    /\ UNCHANGED <<confVars, dnsVars, filterVars, server_running, reverse_lookup_cache,
                   cache_lock, stops, last_rec>>

TbLock(t) ==
    /\ pc[t] = "tb_lock"
    /\ AsyncLockFree(cache_lock)
    /\ cache_lock' = t
    /\ pc' = [pc EXCEPT ![t] = "tb_get"]
    /\ UNCHANGED <<confVars, dnsVars, filterVars, arg, server_running,
                   reverse_lookup_cache, last, stops, last_rec>>

\* Mutant: the guard is bound outside the `if let` block and lives until
\* the call returns.
Mut_GuardKeptOnMiss(t) == t

\* The holder of the cache lock after a miss: the guard, bound inside the
\* `if let` block, is dropped at the end of the block.
guard_after_miss(t) == 0

\* `reverse_lookup_cache.get(&saddr.ip())`: a hit returns the negation of
\* the entry; on a miss the guard is dropped and the ACL is asked.
TbGet(t) ==
    /\ pc[t] = "tb_get"
    /\ cache_lock' = IF arg[t].name \in DOMAIN reverse_lookup_cache
                     THEN 0
                     ELSE guard_after_miss(t)
    /\ IF arg[t].name \in DOMAIN reverse_lookup_cache
       THEN /\ last' = [op |-> "check_target_bypassed",
                        ret |-> cache_hit_bypassed(reverse_lookup_cache[arg[t].name]),
                        via |-> "cache"]
            /\ pc' = [pc EXCEPT ![t] = "idle"]
            /\ arg' = [arg EXCEPT ![t] = NoArg]
       ELSE /\ pc' = [pc EXCEPT ![t] = "tb_acl"]
            /\ UNCHANGED <<last, arg>>
    /\ UNCHANGED <<confVars, dnsVars, filterVars, server_running, reverse_lookup_cache,
                   stops, last_rec>>

\* check_target_bypassed_with_acl
TbAcl(t) ==
    /\ pc[t] = "tb_acl"
    /\ last' = [op |-> "check_target_bypassed",
                ret |-> acl_check_target_bypassed(Unwrap(acl), arg[t]),
                via |-> "acl"]
    /\ pc' = [pc EXCEPT ![t] = "idle"]
    /\ arg' = [arg EXCEPT ![t] = NoArg]
    /\ UNCHANGED <<confVars, dnsVars, filterVars, server_running, reverse_lookup_cache,
                   cache_lock, stops, last_rec>>

\* The retention window of an entry (3 days without use) ends.
Expire(ip) ==
    /\ ip \in DOMAIN reverse_lookup_cache
    /\ reverse_lookup_cache' = MapRemove(reverse_lookup_cache, ip)
    /\ last_rec' = MapRemove(last_rec, ip)
    /\ UNCHANGED <<confVars, dnsVars, filterVars, pc, arg, server_running, cache_lock,
                   last, stops>>

\* config_mut(&mut self) -> &mut Config: the caller has the Context to
\* itself (no call is under way) and writes the configuration; what was
\* built from the configuration at construction stays as it is.
ConfigMut(ty, a, lda, srv) ==
    /\ \A t \in Tasks : pc[t] = "idle"
    /\ config_muts < MaxConfigMuts
    /\ config_muts' = config_muts + 1
    /\ config_type' = ty
    /\ acl' = a
    /\ local_dns_addr' = lda
    /\ config_server' = srv
    /\ UNCHANGED <<local_dns, built_with, dnsVars, nonce_ppbloom, seqVars,
                   taskVars, nonceVars, ctxVars>>

\* server_config_mut(&mut self, idx) -> &mut ServerConfig
ServerConfigMut(idx, sc) ==
    /\ \A t \in Tasks : pc[t] = "idle"
    /\ config_muts < MaxConfigMuts
    /\ config_muts' = config_muts + 1
    /\ config_server' = [config_server EXCEPT ![idx] = sc]
    /\ UNCHANGED <<config_type, acl, local_dns_addr, local_dns, built_with,
                   dnsVars, nonce_ppbloom, seqVars, taskVars, nonceVars, ctxVars>>

\* The configurations written through config_mut: a server's, with an ACL
\* and a local DNS address, and a client's, without them.
WrittenConfigs ==
    {[config_type |-> "Server", acl |-> Some(a),
      local_dns_addr |-> Some("local_dns_addr"),
      server |-> [idx \in ServerIdxs |-> ServerConfig("AES_256_GCM")]] :
        a \in {x \in AccessControls : x.proxy_list = {"ip1"}}}
    \cup {[config_type |-> "Local", acl |-> None, local_dns_addr |-> None,
           server |-> [idx \in ServerIdxs |-> ServerConfig("SS_RC4_MD5")]]}

Next ==
    \/ \E t \in Tasks : ServerRunning(t)
    \/ \E t \in Tasks : SetServerStopped(t)
    \/ \E t \in Tasks, ip \in IPs : CheckClientBlocked(t, ip)
    \/ \E t \in Tasks, addr \in Addresses : CheckOutboundBlocked(t, addr)
    \/ \E t \in Tasks : OutboundAcl(t)
    \/ \E t \in Tasks, ip \in IPs, forward \in BOOLEAN : AddCall(t, ip, forward)
    \/ \E t \in Tasks : AddLock(t)
    \/ \E t \in Tasks : AddRecord(t)
    \/ \E t \in Tasks, target \in Addresses : TbCall(t, target)
    \/ \E t \in Tasks : TbLock(t)
    \/ \E t \in Tasks : TbGet(t)
    \/ \E t \in Tasks : TbAcl(t)
    \/ \E ip \in IPs : Expire(ip)
    \/ \E c \in WrittenConfigs :
          ConfigMut(c.config_type, c.acl, c.local_dns_addr, c.server)
    \/ \E idx \in ServerIdxs, m \in Methods : ServerConfigMut(idx, ServerConfig(m))

Spec == InitContext /\ [][Next]_vars

(***************************************************************************)
(* Context::dns_resolve.  The call asks one collaborator, the local        *)
(* upstream or the generic resolver, and awaits its reply; with debug      *)
(* logging enabled it measures the time the lookup took and hands a debug  *)
(* line to `debug!`, which writes it if the level still allows it.  Beside *)
(* the resolutions the tasks stop the server and check nonces.             *)
(***************************************************************************)
Ports == {80, 443}

\* io::Result<Vec<SocketAddr>>
Ok(addrs) == [ok |-> TRUE, addrs |-> addrs, kind |-> ""]
Err(kind) == [ok |-> FALSE, addrs |-> <<>>, kind |-> kind]

SocketAddr(ip, port) == [ip |-> ip, port |-> port]

\* What a collaborator may reply to a lookup for the port `port`.
ResolverReplies(port) ==
    { Ok(<<SocketAddr("ip1", port)>>),
      Ok(<<SocketAddr("ip1", port), SocketAddr("ip2", port)>>),
      Err("NotFound"),
      Err("TimedOut") }

\* Mutant: the generic resolver is asked whatever is configured.
Mut_AlwaysGeneric(ld) == "generic"

\* dns_resolve_impl: `match self.local_dns { Some(ref local_dns) =>
\* local_dns.lookup_ip(..), None => resolve(..) }`: the collaborator asked.
dns_resolve_impl(ld) == IF ld # None THEN "local" ELSE "generic"

\* Mutant: with debug logging a failure is logged and an empty list returned.
Mut_TimedSwallowsFailure(result, enabled) ==
    [result |-> IF result.ok THEN result ELSE Ok(<<>>), logged |-> enabled]

\* The branch of dns_resolve taken with debug logging enabled, after the
\* lookup: `debug!` tests the level again, `enabled` being what it finds, and
\* writes the line if the level allows it; the lookup's result is returned.
dns_resolve_timed(result, enabled) == [result |-> result, logged |-> enabled]

\* Mutant: a failure is turned into an empty list of addresses.
Mut_PlainSwallowsFailure(result) ==
    [result |-> IF result.ok THEN result ELSE Ok(<<>>), logged |-> FALSE]

\* The branch taken with debug logging disabled.
dns_resolve_plain(result) == [result |-> result, logged |-> FALSE]

\* dns_resolve after the lookup has completed with `result`: `debug` is what
\* log_enabled! said at the call, `enabled` what the level allows now.
dns_resolve(debug, enabled, result) ==
    IF debug THEN dns_resolve_timed(result, enabled) ELSE dns_resolve_plain(result)

\* dns_resolve(host, port), `debug` being what log_enabled! says at the call:
\* the lookup is handed to the collaborator and awaited.
DnsCall(t, host, port, debug) ==
    /\ pc[t] = "idle"
    /\ pc' = [pc EXCEPT ![t] = "dns_await"]
    /\ arg' = [arg EXCEPT ![t] =
                 [host |-> host, port |-> port, debug |-> debug,
                  lookups |-> <<dns_resolve_impl(local_dns)>>]]
    /\ UNCHANGED <<confVars, dnsVars, filterVars, ctxVars>>

\* The collaborator replies and dns_resolve returns, `enabled` being whether
\* the log level allows debug lines at that moment.
DnsReturn(t, reply, enabled) ==
    /\ pc[t] = "dns_await"
    /\ reply \in ResolverReplies(arg[t].port)
    /\ LET r == dns_resolve(arg[t].debug, enabled, reply)
       IN  dns_last' = [host |-> arg[t].host, port |-> arg[t].port,
                        debug |-> arg[t].debug, enabled |-> enabled,
                        lookups |-> arg[t].lookups,
                        reply |-> reply, result |-> r.result,
                        logged |-> r.logged]
    /\ pc' = [pc EXCEPT ![t] = "idle"]
    /\ arg' = [arg EXCEPT ![t] = NoArg]
    /\ UNCHANGED <<confVars, filterVars, ctxVars>>

\* The nonces checked beside the resolutions.
PeerNonces == {<<0>>, <<1>>}

\* check_nonce_and_set by a task that is in no other call.
PeerCheckNonceAndSet(t, nonce) ==
    /\ pc[t] = "idle"
    /\ Len(hist) < MaxPeerInserts
    /\ SeqCheckNonceAndSet(nonce)

NextDns ==
    \/ \E t \in Tasks, host \in Hosts, port \in Ports, debug \in BOOLEAN :
          DnsCall(t, host, port, debug)
    \/ \E t \in Tasks, port \in Ports, enabled \in BOOLEAN :
          \E reply \in ResolverReplies(port) : DnsReturn(t, reply, enabled)
    \/ \E t \in Tasks : SetServerStopped(t)
    \/ \E t \in Tasks, nonce \in PeerNonces : PeerCheckNonceAndSet(t, nonce)
    \/ \E c \in WrittenConfigs :
          ConfigMut(c.config_type, c.acl, c.local_dns_addr, c.server)

\* The resolutions start from the local contexts without an ACL, with and
\* without a local DNS address.
InitDns ==
    \E lda \in LocalDnsAddrs : new_with_state("Local", 1, 1, None, lda)

SpecDns == InitDns /\ [][NextDns]_vars

(***************************************************************************)
(* The locks and the suspension points.  Tasks record into the cache, ask  *)
(* for bypass decisions, resolve names and check nonces side by side; the  *)
(* evaluation of the ACL may itself resolve the name and record the        *)
(* decision for the resolved IP; a task suspended at an `.await` may be    *)
(* dropped (its timeout fired, its caller was cancelled).                  *)
(***************************************************************************)
\* Mutant: add_to_reverse_lookup_cache awaits inside its critical section.
Mut_AwaitUnderLock ==
    {"dns_await", "ob_acl", "add_lock", "add_crit", "tb_lock", "tb_acl",
     "acl_dns", "acl_add_lock"}

\* Where a task stands at an `.await` that can return Pending: the lookup
\* of dns_resolve, the ACL's answer awaited by check_outbound_blocked, the
\* two `lock().await` on the cache, the evaluation of the ACL and the
\* resolution and the `lock().await` inside it.
SuspensionPoints ==
    {"dns_await", "ob_acl", "add_lock", "tb_lock", "tb_acl", "acl_dns",
     "acl_add_lock"}

\* Where a task waits for the cache lock.
CacheLockWaits == {"add_lock", "tb_lock", "acl_add_lock"}

\* The replies to the lookups made beside the cache operations.
LockReplies == {Ok(<<SocketAddr("ip1", 80)>>), Err("TimedOut")}

\* The future of task t is dropped at a suspension point: its guards are
\* dropped with it, and the task makes no further call.
Cancel(t) ==
    /\ pc[t] \in SuspensionPoints
    /\ pc' = [pc EXCEPT ![t] = "cancelled"]
    /\ arg' = [arg EXCEPT ![t] = NoArg]
    /\ cache_lock' = IF cache_lock = t THEN 0 ELSE cache_lock
    /\ UNCHANGED <<confVars, dnsVars, filterVars, server_running,
                   reverse_lookup_cache, last, stops, last_rec>>

\* The evaluation of the ACL for a domain name calls dns_resolve.
AclResolves(t) ==
    /\ pc[t] = "tb_acl"
    /\ arg[t].kind = "DomainNameAddress"
    /\ pc' = [pc EXCEPT ![t] = "acl_dns"]
    /\ UNCHANGED <<confVars, dnsVars, filterVars, arg, ctxVars>>

\* The resolution returns: on success the evaluation goes on to record, for
\* the first address, whether the name is proxied.
AclResolved(t, reply) ==
    /\ pc[t] = "acl_dns"
    /\ IF reply.ok
       THEN LET ip == reply.addrs[1].ip
                forward == ~acl_check_target_bypassed(Unwrap(acl), arg[t])
            IN  /\ pc' = [pc EXCEPT ![t] = "acl_add_lock"]
                /\ arg' = [arg EXCEPT ![t] =
                             [kind |-> arg[t].kind, name |-> arg[t].name,
                              ip |-> ip, forward |-> forward,
                              exception |-> is_exception(acl, ip, forward)]]
       ELSE /\ pc' = [pc EXCEPT ![t] = "acl_ret"]
            /\ UNCHANGED arg
    /\ UNCHANGED <<confVars, dnsVars, filterVars, ctxVars>>

\* add_to_reverse_lookup_cache called by the evaluation of the ACL.
AclAddLock(t) ==
    /\ pc[t] = "acl_add_lock"
    /\ AsyncLockFree(cache_lock)
    /\ cache_lock' = t
    /\ pc' = [pc EXCEPT ![t] = "acl_add_crit"]
    /\ UNCHANGED <<confVars, dnsVars, filterVars, arg, server_running,
                   reverse_lookup_cache, last, stops, last_rec>>

AclAddRecord(t) ==
    /\ pc[t] = "acl_add_crit"
    /\ reverse_lookup_cache' =
          cache_record(reverse_lookup_cache, arg[t].ip, arg[t].forward,
                       arg[t].exception)
    /\ last_rec' = MapInsert(last_rec, arg[t].ip,
                             Recorded(acl, arg[t].ip, arg[t].forward))
    /\ cache_lock' = 0
    /\ pc' = [pc EXCEPT ![t] = "acl_ret"]
    /\ UNCHANGED <<confVars, dnsVars, filterVars, arg, server_running, last,
                   stops>>

\* The evaluation of the ACL returns its decision for the target.
AclReturn(t) ==
    /\ pc[t] = "acl_ret"
    /\ last' = [op |-> "check_target_bypassed",
                ret |-> acl_check_target_bypassed(Unwrap(acl), arg[t]),
                via |-> "acl"]
    /\ pc' = [pc EXCEPT ![t] = "idle"]
    /\ arg' = [arg EXCEPT ![t] = NoArg]
    /\ UNCHANGED <<confVars, dnsVars, filterVars, server_running,
                   reverse_lookup_cache, cache_lock, stops, last_rec>>

\* check_nonce_and_set called beside the cache operations: the same steps
\* as above, the nonce held in a record as the arguments of the other calls.
NonceArg(nonce) == [nonce |-> nonce]

PeerNonceCall(t, nonce) ==
    /\ pc[t] = "idle"
    /\ arg' = [arg EXCEPT ![t] = NonceArg(nonce)]
    /\ IF nonce_is_empty(nonce)
       THEN /\ pc' = [pc EXCEPT ![t] = "done"]
            /\ ret' = [ret EXCEPT ![t] = FALSE]
       ELSE /\ pc' = [pc EXCEPT ![t] = "nonce_lock"]
            /\ UNCHANGED ret
    /\ UNCHANGED <<confVars, dnsVars, nonce_ppbloom, seqVars, nonce_lock, batch,
                   ctxVars>>

PeerNonceCheck(t) ==
    /\ pc[t] = "nonce_check"
    /\ IF AnyBloomChecks(nonce_ppbloom, arg[t].nonce)
       THEN /\ ret' = [ret EXCEPT ![t] = TRUE]
            /\ pc' = [pc EXCEPT ![t] = "done"]
            /\ nonce_lock' = 0
       ELSE /\ pc' = [pc EXCEPT ![t] = "nonce_set"]
            /\ UNCHANGED <<ret, nonce_lock>>
    /\ UNCHANGED <<confVars, dnsVars, nonce_ppbloom, seqVars, arg, batch, ctxVars>>

PeerNonceSet(t) ==
    /\ pc[t] = "nonce_set"
    /\ nonce_ppbloom' = InsertNovel(nonce_ppbloom, arg[t].nonce)
    /\ ret' = [ret EXCEPT ![t] = FALSE]
    /\ pc' = [pc EXCEPT ![t] = "done"]
    /\ nonce_lock' = 0
    /\ UNCHANGED <<confVars, dnsVars, seqVars, arg, batch, ctxVars>>

\* The caller of check_nonce_and_set takes the result and goes on.
NonceDone(t) ==
    /\ pc[t] = "done"
    /\ pc' = [pc EXCEPT ![t] = "idle"]
    /\ arg' = [arg EXCEPT ![t] = NoArg]
    /\ ret' = [ret EXCEPT ![t] = FALSE]
    /\ UNCHANGED <<confVars, dnsVars, nonce_ppbloom, seqVars, nonceVars, ctxVars>>

NextLock ==
    \/ \E t \in Tasks, forward \in BOOLEAN : AddCall(t, "ip1", forward)
    \/ \E t \in Tasks : AddLock(t)
    \/ \E t \in Tasks : AddRecord(t)
    \/ \E t \in Tasks, target \in {SocketTarget("ip1")}
                          \cup {a \in Addresses : a.kind = "DomainNameAddress"} :
          TbCall(t, target)
    \/ \E t \in Tasks : TbLock(t)
    \/ \E t \in Tasks : TbGet(t)
    \/ \E t \in Tasks : TbAcl(t)
    \/ \E t \in Tasks : AclResolves(t)
    \/ \E t \in Tasks, reply \in LockReplies : AclResolved(t, reply)
    \/ \E t \in Tasks : AclAddLock(t)
    \/ \E t \in Tasks : AclAddRecord(t)
    \/ \E t \in Tasks : AclReturn(t)
    \/ \E t \in Tasks, host \in Hosts : DnsCall(t, host, 80, FALSE)
    \/ \E t \in Tasks, reply \in LockReplies : DnsReturn(t, reply, FALSE)
    \/ \E t \in Tasks : CheckOutboundBlocked(t, SocketTarget("ip2"))
    \/ \E t \in Tasks : OutboundAcl(t)
    \/ \E t \in Tasks, nonce \in PeerNonces : PeerNonceCall(t, nonce)
    \/ \E t \in Tasks : NonceLock(t)
    \/ \E t \in Tasks : PeerNonceCheck(t)
    \/ \E t \in Tasks : PeerNonceSet(t)
    \/ \E t \in Tasks : NonceDone(t)
    \/ \E t \in Tasks : Cancel(t)

\* The runs start from the local context whose ACL proxies ip1 alone.
InitLock ==
    \E a \in AccessControls :
        /\ a.proxy_list = {"ip1"}
        /\ new_with_state("Local", 1, 1, Some(a), None)

SpecLock == InitLock /\ [][NextLock]_vars

\* The calls that take the locks, without the drops, made by LockTasks:
\* records that agree with the ACL, bypass decisions for a socket address
\* and for a name, whose evaluation resolves and records, and checks of one
\* nonce.
NextLockFair ==
    \/ \E t \in LockTasks : AddCall(t, "ip1", TRUE)
    \/ \E t \in LockTasks : AddLock(t)
    \/ \E t \in LockTasks : AddRecord(t)
    \/ \E t \in LockTasks, target \in {SocketTarget("ip1")}
                          \cup {a \in Addresses : a.kind = "DomainNameAddress"} :
          TbCall(t, target)
    \/ \E t \in LockTasks : TbLock(t)
    \/ \E t \in LockTasks : TbGet(t)
    \/ \E t \in LockTasks : TbAcl(t)
    \/ \E t \in LockTasks : AclResolves(t)
    \/ \E t \in LockTasks, reply \in LockReplies : AclResolved(t, reply)
    \/ \E t \in LockTasks : AclAddLock(t)
    \/ \E t \in LockTasks : AclAddRecord(t)
    \/ \E t \in LockTasks : AclReturn(t)
    \/ \E t \in LockTasks : PeerNonceCall(t, <<0>>)
    \/ \E t \in LockTasks : NonceLock(t)
    \/ \E t \in LockTasks : PeerNonceCheck(t)
    \/ \E t \in LockTasks : PeerNonceSet(t)
    \/ \E t \in LockTasks : NonceDone(t)

\* The steps a task takes while it holds the cache lock, and while it holds
\* the nonce lock.
CacheCritical(t) == AddRecord(t) \/ TbGet(t) \/ AclAddRecord(t)
NonceCritical(t) == PeerNonceCheck(t) \/ PeerNonceSet(t)

\* A task that holds a lock is running synchronous code, and is scheduled
\* until it gives the lock up.  The async mutex of the cache queues its
\* waiters first in, first out: a waiter gets the lock once the lock has
\* been released often enough.  The spin lock of the filter has no queue: a
\* spinning task retries and gets the lock if the lock stays free, but
\* another task may take it first, every time.
LockFairness ==
    \A t \in LockTasks :
        /\ WF_vars(CacheCritical(t) \/ NonceCritical(t))
        /\ SF_vars(AddLock(t) \/ TbLock(t) \/ AclAddLock(t))
        /\ WF_vars(NonceLock(t))

InitLockFair ==
    \E a \in AccessControls :
        /\ a.proxy_list = {"ip1"}
        /\ new_with_state_shared(LockTasks, "Local", 1, 1, Some(a), None)

SpecLockFair == InitLockFair /\ [][NextLockFair]_vars /\ LockFairness

(***************************************************************************)
(* Definitions used to state the properties of the filter.                 *)
(***************************************************************************)
\* check_and_set on `n` would find it in one of the two filters.
Reported(n) == AnyBloomChecks(nonce_ppbloom, n)

ItemCount == nonce_ppbloom.item_count
CountSum == nonce_ppbloom.bloom_count[0] + nonce_ppbloom.bloom_count[1]

\* No two nonces of the model share a bit in either filter.
NoFalsePositives == \A i \in 0..1 : nonce_ppbloom.blooms[i].sip = 1

\* The slot that was active after `r` rotations (current starts at 0).
SlotOfRot(r) == r % 2
\* The history entries that slot i holds: those inserted since it was last
\* cleared.
HeldIn(i) ==
    {k \in 1..Len(hist) :
        /\ SlotOfRot(hist[k].rot) = i
        /\ rotations - hist[k].rot < 2}

HistDistinct ==
    \A j, k \in 1..Len(hist) : j # k => hist[j].nonce # hist[k].nonce

\* C2: no false negatives: a nonce that was inserted is reported present
\* (the call returns true) by every later call made while fewer than two
\* rotations have happened since its insertion.
C2_NoFalseNegatives ==
    [][\A k \in 1..Len(hist) :
          (hist[k].nonce = seq_nonce' /\ rotations - hist[k].rot < 2)
              => (seq_ret' = TRUE /\ Reported(hist[k].nonce))]_vars

\* A nonce inserted one rotation ago, in the slot that is no longer active,
\* has just been asked for again and was reported.
C2_Witness ==
    /\ seq_ret = TRUE
    /\ \E k \in 1..Len(hist) :
          /\ hist[k].nonce = seq_nonce
          /\ rotations - hist[k].rot = 1

\* C3 as stated: each of the last N = 2 * item_count inserted nonces is still
\* detectable.
C3_LastNDetectable ==
    \A k \in 1..Len(hist) :
        k > Len(hist) - 2 * ItemCount => Reported(hist[k].nonce)

\* C3, amended: the two slots together hold the most recent
\* bloom_count[0] + bloom_count[1] inserted nonces, a number between
\* item_count and 2 * item_count once item_count nonces were inserted, and
\* each of those is detectable; the window is N only while both slots are
\* full.
C3_LastHeldDetectable ==
    /\ CountSum <= 2 * ItemCount
    /\ CountSum >= Min(Len(hist), ItemCount)
    /\ \A k \in 1..Len(hist) :
          k > Len(hist) - CountSum => Reported(hist[k].nonce)

\* More than item_count nonces are held and the oldest of them, in the slot
\* that is no longer active, is detectable.
C3_Witness ==
    /\ ItemCount >= 2
    /\ Len(hist) > 2 * ItemCount
    /\ CountSum > ItemCount
    /\ Reported(hist[Len(hist) - CountSum + 1].nonce)
    /\ HistDistinct

\* C4: on a fresh filter, after 3 * item_count pairwise distinct nonces were
\* inserted one after the other (N = 2 * item_count), each of the most recent
\* N is reported present and each of the oldest N/2 is forgotten, when the
\* filters give no false positives.
C4_Scenario ==
    (NoFalsePositives /\ HistDistinct /\ Len(hist) = 3 * ItemCount)
        => \A k \in 1..Len(hist) :
              IF k > ItemCount
              THEN Reported(hist[k].nonce)
              ELSE ~Reported(hist[k].nonce) /\
                   ~check_nonce_and_set(nonce_ppbloom, hist[k].nonce).ret

C4_Witness ==
    /\ config_type = "Server"
    /\ NoFalsePositives
    /\ HistDistinct
    /\ Len(hist) = 3 * ItemCount
    /\ ItemCount >= 2

\* C6: a call whose nonce one of the two slots reports returns true and
\* leaves the slots, the counters and the active index as they were, also
\* when the active slot is full.
C6_ReplayDoesNotMutate ==
    [][(seq_nonce' # <<>> /\ AnyBloomChecks(nonce_ppbloom, seq_nonce'))
          => (seq_ret' = TRUE /\ nonce_ppbloom' = nonce_ppbloom)]_vars

\* A replay of a nonce held only by the slot that is not active was detected
\* while the active slot was full.
C6_Witness ==
    /\ seq_ret = TRUE
    /\ seq_nonce # <<>>
    /\ CurrentIsFull(nonce_ppbloom)
    /\ ~Bloom_check(nonce_ppbloom.blooms[nonce_ppbloom.current], seq_nonce)
    /\ Bloom_check(nonce_ppbloom.blooms[1 - nonce_ppbloom.current], seq_nonce)

\* C7: the two counters never add up to more than 2 * item_count, each
\* counter is the number of nonces its slot holds, and a slot holds nothing
\* but the bits of the nonces inserted since it was last cleared.
C7_RotationBoundsMemory ==
    /\ CountSum <= 2 * ItemCount
    /\ \A i \in 0..1 :
          /\ nonce_ppbloom.bloom_count[i] = Cardinality(HeldIn(i))
          /\ nonce_ppbloom.blooms[i].bitmap =
                {BloomBit(nonce_ppbloom.blooms[i].sip, hist[k].nonce) : k \in HeldIn(i)}

\* More nonces than the two slots can hold were inserted and both are full.
C7_Witness ==
    /\ Len(hist) > 2 * ItemCount
    /\ CountSum = 2 * ItemCount
    /\ rotations >= 3

\* The tasks of the round that passed the round's nonce.
Callers == {t \in Tasks : pc[t] # "idle" /\ arg[t] = batch.nonce}
Novel == {t \in Callers : pc[t] = "done" /\ ret[t] = FALSE}
Replay == {t \in Callers : pc[t] = "done" /\ ret[t] = TRUE}

\* C1: of the K concurrent calls that pass one non-empty nonce the filter
\* did not report, never two return false, and when all K have returned
\* exactly one returned false and K - 1 returned true.
C1_ExactlyOnceAdmission ==
    (batch.nonce # <<>> /\ batch.fresh)
        => /\ Cardinality(Novel) <= 1
           /\ (\A t \in Callers : pc[t] = "done")
                 => /\ Cardinality(Novel) = 1
                    /\ Cardinality(Replay) = Cardinality(Callers) - 1

\* All tasks passed the same fresh nonce and all have returned, in a filter
\* that already held another nonce.
C1_Witness ==
    /\ batch.nonce # <<>> /\ batch.fresh
    /\ Callers = Tasks
    /\ \A t \in Tasks : pc[t] = "done"
    /\ batch.n > 0
    /\ CountSum >= 2

\* C5: a call with the empty nonce returns false at once: it takes no lock
\* and leaves the slots, the counters and the active index as they were,
\* whatever the state and whoever holds the lock.
C5_EmptyNonceAlwaysNovel ==
    [][\A t \in Tasks :
          (pc[t] = "idle" /\ pc'[t] # "idle" /\ arg'[t] = <<>>)
              => /\ pc'[t] = "done"
                 /\ ret'[t] = FALSE
                 /\ nonce_ppbloom' = nonce_ppbloom
                 /\ nonce_lock' = nonce_lock]_vars

\* A call with the empty nonce has returned false while another task was
\* inside check_and_set, holding the lock, in a later round.
C5_Witness ==
    \E t, u \in Tasks :
        /\ pc[t] = "done" /\ arg[t] = <<>> /\ ret[t] = FALSE
        /\ pc[u] = "nonce_set" /\ nonce_lock = u
        /\ CountSum >= 1
        /\ batch.n > 0

(***************************************************************************)
(* Properties of the running flag, the ACL decisions and the cache.        *)
(***************************************************************************)
\* A step in which a call of `op` returned.
Returned(op) == last' # last /\ last'.op = op

\* C8: the flag is true on a new Context and a server_running() before any
\* set_server_stopped() returns true; once set_server_stopped() was called
\* the flag is false, it stays false whatever is called afterwards, and
\* every server_running() returns false.
C8_RunningFlagOneWay ==
    /\ server_running = TRUE
    /\ [](stops > 0 => ~server_running)
    /\ [][/\ ~server_running => ~server_running'
          /\ Returned("server_running")
                => last'.ret = (stops = 0)]_vars

\* After two set_server_stopped() calls, with an entry recorded in the
\* cache in between, server_running() has returned false.
C8_Witness ==
    /\ stops >= 2
    /\ last.op = "server_running" /\ last.ret = FALSE
    /\ DOMAIN reverse_lookup_cache # {}

\* What the configured ACL alone says of an IP.
AclForwards(ip) == AclOnly(acl, ip)

\* The entry the latest record for `ip` asks for differs from what the ACL
\* alone said of `ip` when the record was made.
RecordedException(ip) == last_rec[ip].forward # last_rec[ip].proxied

\* C9: within the retention window, the cache holds for an IP what the
\* latest add_to_reverse_lookup_cache(ip, forward) that returned asks for:
\* the entry `forward` if that differs from the ACL's decision for the IP
\* (the decision of the ACL the record was made under, which is the
\* configured one unless the configuration was written since), no entry
\* otherwise; and the lookup of check_target_bypassed finds just that.
C9_RecordThenLookup ==
    /\ [](\A ip \in DOMAIN last_rec :
            IF RecordedException(ip)
            THEN ip \in DOMAIN reverse_lookup_cache
                 /\ reverse_lookup_cache[ip] = last_rec[ip].forward
            ELSE ip \notin DOMAIN reverse_lookup_cache)
    /\ [](config_muts = 0
            => \A ip \in DOMAIN last_rec : last_rec[ip].proxied = AclForwards(ip))
    /\ [][\A t \in Tasks :
            (pc[t] = "tb_get" /\ pc'[t] # "tb_get" /\ arg[t].name \in DOMAIN last_rec)
                => IF RecordedException(arg[t].name)
                   THEN /\ pc'[t] = "idle"
                        /\ last'.op = "check_target_bypassed"
                        /\ last'.ret = ~last_rec[arg[t].name].forward
                   ELSE pc'[t] = "tb_acl"]_vars

\* Without an ACL, true was recorded for ip1, which left no entry, and false
\* for ip2, which is cached as false.
C9_Witness ==
    /\ acl = None
    /\ "ip1" \in DOMAIN last_rec /\ last_rec["ip1"].forward = TRUE
    /\ "ip1" \notin DOMAIN reverse_lookup_cache
    /\ "ip2" \in DOMAIN last_rec /\ last_rec["ip2"].forward = FALSE
    /\ "ip2" \in DOMAIN reverse_lookup_cache
    /\ reverse_lookup_cache["ip2"] = FALSE

AclPredicates ==
    {"check_client_blocked", "check_outbound_blocked", "check_target_bypassed"}

\* C10: without an ACL, check_client_blocked, check_outbound_blocked and
\* check_target_bypassed return false, whatever the argument, the cache
\* and the flag: a call that returns while no ACL is configured took the
\* default arm, without suspending, and every call that took the default
\* arm returned false.
C10_PermissiveWithoutAcl ==
    /\ []((last.op \in AclPredicates /\ last.via = "default") => last.ret = FALSE)
    /\ []((acl = None /\ config_muts = 0 /\ last.op \in AclPredicates)
            => last.ret = FALSE)
    /\ [](acl = None
            => \A t \in Tasks : pc[t] \notin {"ob_acl", "tb_lock", "tb_get", "tb_acl"})
    /\ [][(acl = None /\ last' # last /\ last'.op \in AclPredicates)
            => /\ last'.via = "default"
               /\ last'.ret = FALSE
               /\ UNCHANGED <<pc, cache_lock>>]_vars

\* Without an ACL, check_target_bypassed has returned false while the cache
\* holds a bypass entry and the server is stopped.
C10_Witness ==
    /\ acl = None
    /\ last.op = "check_target_bypassed" /\ last.ret = FALSE
    /\ \E ip \in DOMAIN reverse_lookup_cache : reverse_lookup_cache[ip] = FALSE
    /\ ~server_running

(***************************************************************************)
(* Properties of check_target_bypassed.                                    *)
(***************************************************************************)
\* C11 as stated: whatever the configuration, a call for a socket address
\* whose IP has an entry in the cache returns the negation of the entry.
C11_HitDecidesAlways ==
    [][\A t \in Tasks, ip \in DOMAIN reverse_lookup_cache :
          /\ (acl = None /\ TbCall(t, SocketTarget(ip)))
                => last'.ret = ~reverse_lookup_cache[ip]
          /\ (pc[t] = "tb_get" /\ pc'[t] # "tb_get" /\ arg[t] = SocketTarget(ip))
                => last'.ret = ~reverse_lookup_cache[ip]]_vars

\* C11, amended: with an ACL configured, a call for a socket address looks
\* the IP up in the cache first; a hit returns the negation of the entry and
\* the ACL is not evaluated; the ACL is evaluated, and its answer returned,
\* only after a miss or for a target that is no socket address.  Without an
\* ACL the call returns false and the cache is not consulted.
C11_CacheHitShortCircuits ==
    [][/\ \A t \in Tasks :
            /\ (pc[t] = "idle" /\ pc'[t] \in {"tb_lock", "tb_acl"})
                  => /\ acl # None
                     /\ pc'[t] = IF arg'[t].kind = "SocketAddress"
                                 THEN "tb_lock" ELSE "tb_acl"
            /\ (pc[t] = "tb_get" /\ pc'[t] # "tb_get")
                  => IF arg[t].name \in DOMAIN reverse_lookup_cache
                     THEN /\ pc'[t] = "idle"
                          /\ last' = [op |-> "check_target_bypassed",
                                      ret |-> ~reverse_lookup_cache[arg[t].name],
                                      via |-> "cache"]
                     ELSE /\ pc'[t] = "tb_acl"
                          /\ last' = last
            /\ (pc[t] # "tb_acl" /\ pc'[t] = "tb_acl")
                  => \/ pc[t] = "idle" /\ arg'[t].kind = "DomainNameAddress"
                     \/ /\ pc[t] = "tb_get"
                        /\ arg[t].name \notin DOMAIN reverse_lookup_cache
            /\ (pc[t] = "tb_acl" /\ pc'[t] # "tb_acl")
                  => /\ pc'[t] = "idle"
                     /\ last' = [op |-> "check_target_bypassed",
                                 ret |-> acl_check_target_bypassed(Unwrap(acl), arg[t]),
                                 via |-> "acl"]
       /\ (acl = None /\ Returned("check_target_bypassed"))
             => /\ last'.ret = FALSE
                /\ last'.via = "default"
                /\ UNCHANGED <<pc, cache_lock>>]_vars

\* With an ACL that would not bypass the IP, a call has returned true on the
\* strength of the entry `false` the cache holds for it.
C11_Witness ==
    /\ acl # None
    /\ last.op = "check_target_bypassed" /\ last.via = "cache" /\ last.ret = TRUE
    /\ \E ip \in DOMAIN reverse_lookup_cache :
          /\ reverse_lookup_cache[ip] = FALSE
          /\ ~acl_check_target_bypassed(Unwrap(acl), SocketTarget(ip))

\* C14: every entry (ip, forward) of the cache is an exception: forward
\* differs from what the ACL alone decided for ip when the entry was recorded
\* and, as long as the configuration was not written, from what the
\* configured ACL decides (check_ip_in_proxy_list, or true without an ACL),
\* whatever calls were made and however they interleaved.
C14_EntriesAreExceptions ==
    \A ip \in DOMAIN reverse_lookup_cache :
        /\ ip \in DOMAIN last_rec
        /\ reverse_lookup_cache[ip] # last_rec[ip].proxied
        /\ config_muts = 0
              => reverse_lookup_cache[ip] #
                    (IF acl = None
                     THEN TRUE
                     ELSE acl_check_ip_in_proxy_list(Unwrap(acl), ip))

\* With an ACL, the cache holds an exception of each kind, after an entry
\* for ip1 was overwritten or removed, while one task is recording under the
\* lock and another waits for it.
C14_Witness ==
    /\ acl # None /\ config_muts = 0
    /\ DOMAIN reverse_lookup_cache = IPs
    /\ reverse_lookup_cache["ip1"] = FALSE
    /\ reverse_lookup_cache["ip2"] = TRUE
    /\ \E t, u \in Tasks :
          /\ pc[t] = "add_crit" /\ arg[t].ip = "ip1" /\ ~arg[t].exception
          /\ pc[u] = "add_lock"

(***************************************************************************)
(* Properties of dns_resolve.                                              *)
(***************************************************************************)
\* The one lookup a call delegates, given the configuration.
ConfiguredLookups ==
    <<IF built_with # None THEN "local" ELSE "generic">>

\* A step in which task t enters dns_resolve, and one in which its call returns.
DnsEnters(t) == pc[t] = "idle" /\ pc'[t] = "dns_await"
DnsLeaves(t) == pc[t] = "dns_await" /\ pc'[t] = "idle"

\* What a dns_resolve step leaves as it was: the configuration with its
\* ACL, the nonce filter and its lock, the running flag, the cache, and the
\* calls of the other tasks.
DnsFrame(t) ==
    /\ UNCHANGED <<confVars, nonce_ppbloom, nonce_lock, server_running,
                   reverse_lookup_cache, cache_lock, hist, rotations, stops>>
    /\ \A u \in Tasks \ {t} : pc'[u] = pc[u] /\ arg'[u] = arg[u]

\* C12: a call delegates exactly one lookup: to the local upstream, and not
\* to the generic resolver, when config.local_dns_addr was set at
\* construction, to the generic resolver otherwise; the collaborator's reply
\* is what the call returns, and no second lookup is made.
C12_StrategySelection ==
    /\ (local_dns # None) = (built_with # None)
    /\ config_muts = 0 => local_dns_addr = built_with
    /\ \A t \in Tasks : pc[t] = "dns_await" => arg[t].lookups = ConfiguredLookups
    /\ dns_last # NoDns
          => /\ dns_last.lookups = ConfiguredLookups
             /\ dns_last.result = dns_last.reply

\* The Context was built with a local DNS address, which was taken out of
\* the configuration afterwards: a call has returned the addresses the local
\* upstream replied, and another awaits the local upstream.
C12_Witness ==
    /\ built_with # None /\ local_dns_addr = None
    /\ dns_last.lookups = <<"local">>
    /\ dns_last.reply = Ok(<<SocketAddr("ip1", 443), SocketAddr("ip2", 443)>>)
    /\ dns_last.result = dns_last.reply
    /\ \E t \in Tasks : pc[t] = "dns_await" /\ arg[t].lookups = <<"local">>

\* C16: a call whose lookup fails returns that failure as an error, after
\* the one lookup it delegated, and neither its entry nor its return changes
\* the nonce filter, the ACL, the running flag or the calls of other tasks.
C16_FailureIsolated ==
    [][\A t \in Tasks :
          /\ DnsEnters(t) => DnsFrame(t) /\ dns_last' = dns_last
          /\ (DnsLeaves(t) /\ ~dns_last'.reply.ok)
                => /\ ~dns_last'.result.ok
                   /\ dns_last'.result.kind = dns_last'.reply.kind
                   /\ dns_last'.result.addrs = <<>>
                   /\ Len(dns_last'.lookups) = 1
                   /\ DnsFrame(t)]_vars

\* A lookup has failed with a timeout, on a stopped server whose filter
\* holds nonces in both slots, while another task awaits its own lookup.
C16_Witness ==
    /\ dns_last.result = Err("TimedOut")
    /\ ~server_running
    /\ \A i \in 0..1 : nonce_ppbloom.bloom_count[i] > 0
    /\ \E t \in Tasks : pc[t] = "dns_await"

\* C17: whether debug logging is enabled changes nothing but the debug line:
\* a call delegates the same single lookup, returns what the other branch
\* returns for the same reply, whatever the level is when the reply comes,
\* and leaves the context as the other does; the line is written when the
\* level allowed it at the call and still allows it at the return.
C17_DiagnosticsChangeNothing ==
    [][\A t \in Tasks :
          /\ DnsEnters(t)
                => /\ arg'[t].lookups = <<dns_resolve_impl(local_dns)>>
                   /\ DnsFrame(t) /\ dns_last' = dns_last
          /\ DnsLeaves(t)
                => /\ dns_last'.debug = arg[t].debug
                   /\ dns_last'.lookups = arg[t].lookups
                   /\ \A enabled \in BOOLEAN :
                         dns_last'.result =
                            dns_resolve(~arg[t].debug, enabled, dns_last'.reply).result
                   /\ dns_last'.logged = (arg[t].debug /\ dns_last'.enabled)
                   /\ DnsFrame(t)]_vars

\* A call made with debug logging has returned a failure and written no
\* line, the level having been lowered while it awaited the lookup; a call
\* without, for the same host and port, awaits the same lookup.
C17_Witness ==
    /\ dns_last.debug /\ ~dns_last.enabled /\ ~dns_last.logged
    /\ dns_last.result = Err("NotFound")
    /\ \E t \in Tasks :
          /\ pc[t] = "dns_await"
          /\ ~arg[t].debug
          /\ arg[t].host = dns_last.host /\ arg[t].port = dns_last.port
          /\ arg[t].lookups = dns_last.lookups

(***************************************************************************)
(* Properties of the steps and the states of the filter.                   *)
(***************************************************************************)
Current == nonce_ppbloom.current
Other == 1 - nonce_ppbloom.current

\* C13: a call on a value that neither slot reports returns false and
\* inserts it.  When the active counter has reached item_count the active
\* index flips, the newly active slot is cleared and holds the value alone
\* with counter 1, and the slot that was active keeps its contents and its
\* counter; otherwise the index stays, the value is added to the active slot,
\* whose counter grows by 1, and the other slot is untouched.
C13_RotationStep ==
    [][(seq_nonce' # <<>> /\ ~AnyBloomChecks(nonce_ppbloom, seq_nonce'))
          => LET p == nonce_ppbloom
                 q == nonce_ppbloom'
                 c == p.current
                 o == 1 - p.current
             IN  /\ seq_ret' = FALSE
                 /\ q.item_count = p.item_count
                 /\ \A i \in 0..1 : q.blooms[i].sip = p.blooms[i].sip
                 /\ IF p.bloom_count[c] >= p.item_count
                    THEN /\ q.current = o
                         /\ q.blooms[o].bitmap = {BloomBit(p.blooms[o].sip, seq_nonce')}
                         /\ q.bloom_count[o] = 1
                         /\ q.blooms[c] = p.blooms[c]
                         /\ q.bloom_count[c] = p.bloom_count[c]
                    ELSE /\ q.current = c
                         /\ q.blooms[c].bitmap =
                               p.blooms[c].bitmap \cup {BloomBit(p.blooms[c].sip, seq_nonce')}
                         /\ q.bloom_count[c] = p.bloom_count[c] + 1
                         /\ q.blooms[o] = p.blooms[o]
                         /\ q.bloom_count[o] = p.bloom_count[o]]_vars

\* The latest call rotated onto a slot that held nonces: the slot now holds
\* the call's nonce alone and the slot left behind is full.
C13_Witness ==
    /\ seq_ret = FALSE /\ seq_nonce # <<>>
    /\ rotations >= 2
    /\ hist[Len(hist)].rot = rotations
    /\ nonce_ppbloom.bloom_count[Current] = 1
    /\ nonce_ppbloom.bloom_count[Other] = ItemCount
    /\ ItemCount >= 2

\* C18: each of the most recent item_count inserted nonces is held by a slot
\* and reported; a call that repeats the nonce of the call before it returns
\* true, also directly after a rotation.
C18_WindowIsItemCount ==
    /\ [](\A k \in 1..Len(hist) :
            k > Len(hist) - ItemCount
                => /\ Reported(hist[k].nonce)
                   /\ \E i \in 0..1 : k \in HeldIn(i))
    /\ [][(seq_nonce' = seq_nonce /\ seq_nonce # <<>>) => seq_ret' = TRUE]_vars

\* Directly after a rotation the nonce just inserted was asked for again and
\* reported, and the item_count-th most recent nonce sits in the other slot.
C18_Witness ==
    /\ ItemCount >= 2
    /\ rotations >= 2
    /\ nonce_ppbloom.bloom_count[Current] = 1
    /\ seq_ret = TRUE
    /\ seq_nonce = hist[Len(hist)].nonce
    /\ (Len(hist) - ItemCount + 1) \in HeldIn(Other)

\* C19: the active index is 0 or 1; each counter is the number of insertions
\* into its slot since the slot was last cleared, and at most item_count;
\* once a nonce was inserted the active counter is at least 1; the slot that
\* is not active is unused (counter 0, empty) or full (counter item_count),
\* and no call writes it while the active index stays.
C19_SlotCounterInvariant ==
    /\ [](/\ Current \in 0..1
          /\ \A i \in 0..1 :
                /\ nonce_ppbloom.bloom_count[i] = Cardinality(HeldIn(i))
                /\ nonce_ppbloom.bloom_count[i] <= ItemCount
          /\ Len(hist) > 0 => nonce_ppbloom.bloom_count[Current] >= 1
          /\ \/ /\ nonce_ppbloom.bloom_count[Other] = 0
                /\ nonce_ppbloom.blooms[Other].bitmap = {}
                /\ rotations = 0
             \/ /\ nonce_ppbloom.bloom_count[Other] = ItemCount
                /\ rotations > 0)
    /\ [][nonce_ppbloom'.current = nonce_ppbloom.current
             => /\ nonce_ppbloom'.blooms[Other] = nonce_ppbloom.blooms[Other]
                /\ nonce_ppbloom'.bloom_count[Other] =
                      nonce_ppbloom.bloom_count[Other]]_vars

\* After two rotations the active slot is partly filled beside a full slot,
\* in a filter whose keys make nonces share bits, and a call was a replay.
C19_Witness ==
    /\ rotations >= 2
    /\ ItemCount >= 2
    /\ nonce_ppbloom.bloom_count[Current] = 1
    /\ nonce_ppbloom.bloom_count[Other] = ItemCount
    /\ ~NoFalsePositives
    /\ seq_ret = TRUE

(***************************************************************************)
(* Properties of the locks and the suspension points.                      *)
(***************************************************************************)
NonceSteps == {"nonce_lock", "nonce_check", "nonce_set"}

\* C15: no task stands at a suspension point while it holds the cache lock
\* or the nonce lock, and check_nonce_and_set has no suspension point; so a
\* task can be dropped only where its call has written nothing yet or has
\* written everything: dropping it changes neither the cache nor the filter
\* nor a lock, the cache holds for each IP what the latest completed record
\* asks for, and every bit of the filter is counted.
C15_CancellationAtomic ==
    /\ [](\A t \in Tasks :
            /\ (cache_lock = t \/ nonce_lock = t) => pc[t] \notin SuspensionPoints
            /\ pc[t] \in NonceSteps => pc[t] \notin SuspensionPoints)
    /\ [](\A ip \in DOMAIN last_rec :
            IF last_rec[ip].forward # AclForwards(ip)
            THEN ip \in DOMAIN reverse_lookup_cache
                 /\ reverse_lookup_cache[ip] = last_rec[ip].forward
            ELSE ip \notin DOMAIN reverse_lookup_cache)
    /\ [](DOMAIN reverse_lookup_cache \subseteq DOMAIN last_rec)
    /\ [](\A i \in 0..1 :
            nonce_ppbloom.bloom_count[i] =
                Cardinality(nonce_ppbloom.blooms[i].bitmap))
    /\ [][\A t \in Tasks :
            (pc[t] # "cancelled" /\ pc'[t] = "cancelled")
                => /\ cache_lock # t /\ nonce_lock # t
                   /\ UNCHANGED <<reverse_lookup_cache, last_rec, cache_lock,
                                  nonce_ppbloom, nonce_lock, dns_last>>]_vars

\* A task was dropped while the cache holds an entry and the filter a
\* nonce; another task is recording under the cache lock, for which a third
\* call, made by the evaluation of the ACL, would wait.
C15_Witness ==
    \E t, u \in Tasks :
        /\ pc[t] = "cancelled"
        /\ pc[u] = "add_crit" /\ cache_lock = u
        /\ DOMAIN reverse_lookup_cache # {}
        /\ CountSum >= 1

\* The safety half of C20: check_target_bypassed does not hold the cache
\* lock while the ACL is evaluated, whoever holds the cache lock or the nonce
\* lock stands in synchronous code and can take its next step, and no holder
\* of the nonce lock waits for the cache lock.
HoldersRun ==
    \A t \in LockTasks :
        /\ pc[t] \in {"tb_acl", "acl_dns", "acl_add_lock", "acl_ret"}
              => cache_lock # t
        /\ cache_lock = t
              => /\ pc[t] \in {"add_crit", "tb_get", "acl_add_crit"}
                 /\ ENABLED CacheCritical(t)
        /\ nonce_lock = t
              => /\ pc[t] \in {"nonce_check", "nonce_set"}
                 /\ ENABLED NonceCritical(t)

\* C20 as stated: no lock is held across an await, and every task that
\* waits for the cache lock or for the nonce lock gets past its wait.
C20_NoTaskWaitsForever ==
    /\ []HoldersRun
    /\ \A t \in LockTasks :
          /\ (pc[t] \in CacheLockWaits) ~> (pc[t] \notin CacheLockWaits)
          /\ (pc[t] = "nonce_lock") ~> (pc[t] # "nonce_lock")

\* C20, amended: check_target_bypassed holds the cache lock only for its
\* lookup, not while the ACL is evaluated, and whoever holds the cache lock
\* or the nonce lock is running, not suspended, and never waits for the
\* other lock.  So every task waiting for the cache lock gets past its wait,
\* also when the evaluation of the ACL records into the cache itself; the
\* nonce lock is released every time it is taken, whatever the tasks waiting
\* for the cache lock do, and a task spinning on it gets it unless other
\* tasks take it again and again.
C20_NoLockAcrossAclEvaluation ==
    /\ []HoldersRun
    /\ \A t \in LockTasks :
          (pc[t] \in CacheLockWaits) ~> (pc[t] \notin CacheLockWaits)
    /\ (nonce_lock # 0) ~> (nonce_lock = 0)
    /\ \A t \in LockTasks :
          []<>(pc[t] # "nonce_lock" \/ nonce_lock # 0)

\* The evaluation of the ACL for one task waits for the cache lock, which a
\* second task, recording an entry, holds, while a third task is checking a
\* nonce under the nonce lock.
C20_Witness ==
    \E t, u, v \in LockTasks :
        /\ pc[t] = "acl_add_lock"
        /\ pc[u] \in {"add_crit", "tb_get"} /\ cache_lock = u
        /\ pc[v] \in {"nonce_check", "nonce_set"} /\ nonce_lock = v

====
